---- MODULE Spec2Model ----
(***************************************************************************)
(* The ArcGIS MapServer provider of pygeoapi-examples, in its two          *)
(* variants:                                                               *)
(*   "library"    docker/arcgis_mapserver/arcgis_mapserver.py              *)
(*                (geometry through arcgis2geojson.convert)                *)
(*   "standalone" docker/arcgis_mapserver/arcgis_mapserver_standalone.py   *)
(*                (geometry through shapely)                               *)
(* One provider instance is modelled: the fields its constructor sets, the *)
(* remote layer it reads, and what its last call did (the request it sent, *)
(* the exception it raised or the features it returned).                   *)
(***************************************************************************)
EXTENDS Integers, Sequences, FiniteSets, TLC

VARIABLES
    variant,        \* which of the two classes the instance is
    collection,     \* self.collection
    extent_bbox,    \* self.extent_bbox
    extent_crs,     \* self.extent_crs
    default_epsg,   \* self.default_epsg
    server,         \* the remote layer: the raw items the MapServer answers with
    op,             \* the last call: "none", "query" or "get_item"
    args,           \* the arguments of the last call
    status,         \* how the last call ended: "ok" or the exception's class
    message,        \* which message the raised exception carries
    request,        \* the HTTP GET the last call issued (sent = FALSE: none)
    features,       \* the features the last call returned
    tlog,           \* the geometries transform_fn was called on, in call order
    rings_in,       \* ring normalisation on its own: the ESRI rings given
    rings_out       \* ring normalisation on its own: what came back

vars == <<variant, collection, extent_bbox, extent_crs, default_epsg, server,
          op, args, status, message, request, features, tlog, rings_in, rings_out>>

\* ------------------------------------------------------------------ bounds

\* Resources in the configuration snapshot.
MaxResources == 2
\* Items the remote layer holds.
MaxItems == 2
\* Rings of one ESRI geometry handed to ring normalisation on its own.
MaxRings == 2
\* Points of one enumerated ring.
MaxRingLen == 4
\* Ring coordinates are drawn from 0..GridMax.
GridMax == 1

\* ------------------------------------------------------------ Python values

\* A scalar JSON value: None (also: the key is missing), or an integer.
PyNone == [kind |-> "None", v |-> 0]
PyInt(n) == [kind |-> "int", v |-> n]
\* str(uuid.uuid4()): an opaque generated token.
PyUuid == [kind |-> "uuid", v |-> 0]
\* str(n)
PyStrOf(n) == [kind |-> "str", v |-> n]

\* Python truth value of a scalar: None and 0 are false.
Truthy(x) == x.kind # "None" /\ ~(x.kind = "int" /\ x.v = 0)
\* Python "a or b"
PyOr(a, b) == IF Truthy(a) THEN a ELSE b

RECURSIVE SeqsUpTo(_, _)
\* All sequences over S of length at most n.
SeqsUpTo(S, n) ==
    IF n = 0 THEN {<<>>}
    ELSE LET shorter == SeqsUpTo(S, n - 1)
         IN  shorter \cup {Append(s, x) : s \in {t \in shorter : Len(t) = n - 1}, x \in S}

Reverse(s) == [i \in 1..Len(s) |-> s[Len(s) + 1 - i]]

\* --------------------------------------------------------- CRS identifiers

\* A string is a sequence of one-character strings.
Digits == {"0", "1", "2", "3", "4", "5", "6", "7", "8", "9"}

DigitVal(c) ==
    CASE c = "0" -> 0 [] c = "1" -> 1 [] c = "2" -> 2 [] c = "3" -> 3
      [] c = "4" -> 4 [] c = "5" -> 5 [] c = "6" -> 6 [] c = "7" -> 7
      [] c = "8" -> 8 [] c = "9" -> 9

DigitChar(d) ==
    CASE d = 0 -> "0" [] d = 1 -> "1" [] d = 2 -> "2" [] d = 3 -> "3"
      [] d = 4 -> "4" [] d = 5 -> "5" [] d = 6 -> "6" [] d = 7 -> "7"
      [] d = 8 -> "8" [] d = 9 -> "9"

RECURSIVE TrailingDigitRun(_)
\* Length of the run of digits the string ends with.
TrailingDigitRun(s) ==
    IF Len(s) = 0 \/ s[Len(s)] \notin Digits THEN 0
    ELSE 1 + TrailingDigitRun(SubSeq(s, 1, Len(s) - 1))

\* re.search(r'(\d{4,5})$', s): no match (<<>>), or group(1), the last 5 digits
\* of a trailing run of 5 or more, the last 4 of a run of exactly 4.
re_search_epsg(s) ==
    LET n == TrailingDigitRun(s)
    IN  IF n < 4 THEN <<>>
        ELSE IF n = 4 THEN SubSeq(s, Len(s) - 3, Len(s))
        ELSE SubSeq(s, Len(s) - 4, Len(s))

RECURSIVE int_of_digits(_)
\* int("2056")
int_of_digits(s) ==
    IF Len(s) = 0 THEN 0
    ELSE 10 * int_of_digits(SubSeq(s, 1, Len(s) - 1)) + DigitVal(s[Len(s)])

RECURSIVE str_of_int(_)
\* str(2056), as an f-string renders an int
str_of_int(n) ==
    IF n < 10 THEN <<DigitChar(n)>>
    ELSE Append(str_of_int(n \div 10), DigitChar(n % 10))

\* A CRS value of the configuration, and self.extent_crs: None or a string.
CrsNone == [kind |-> "None", s |-> <<>>]
CrsStr(s) == [kind |-> "str", s |-> s]
\* Python truth value of self.extent_crs: None and "" are false.
CrsTruthy(c) == c.kind = "str" /\ Len(c.s) > 0

\* self.default_epsg: None, a string (library variant) or an int (standalone).
EpsgNone == [kind |-> "None", s |-> <<>>, n |-> 0]
EpsgStr(s) == [kind |-> "str", s |-> s, n |-> 0]
EpsgInt(n) == [kind |-> "int", s |-> <<>>, n |-> n]
EpsgTruthy(e) == (e.kind = "str" /\ Len(e.s) > 0) \/ (e.kind = "int" /\ e.n # 0)
\* How an f-string renders it into the URL.
EpsgText(e) == IF e.kind = "int" THEN str_of_int(e.n) ELSE e.s

Crs2056 == <<"E", "P", "S", "G", ":", ":", "2", "0", "5", "6">>
Crs32632 == <<"E", "P", "S", "G", ":", "3", "2", "6", "3", "2">>
Crs84 == <<"C", "R", "S", "8", "4">>
CrsWgs == <<"W", "G", "S">>
CrsZero == <<"E", "P", "S", "G", ":", "0", "0", "0", "0">>
CrsLong == <<"X", ":", "1", "2", "3", "4", "5", "6">>

CrsValues ==
    {CrsNone, CrsStr(<<>>), CrsStr(Crs2056), CrsStr(Crs32632), CrsStr(Crs84),
     CrsStr(CrsWgs), CrsStr(CrsZero), CrsStr(CrsLong)}

\* ------------------------------------------------------------------ bboxes

\* One element of a bbox list: a number, a string that float() parses, a
\* string that it does not, or None.
BNum(n) == [kind |-> "num", v |-> n]
BNumStr(n) == [kind |-> "numstr", v |-> n]
BStr == [kind |-> "str", v |-> 0]
BNull == [kind |-> "None", v |-> 0]

\* extents.spatial.bbox: None (missing), a list, or a scalar string.
BBoxNone == [kind |-> "None", elems |-> <<>>]
BBoxList(e) == [kind |-> "list", elems |-> e]
BBoxString == [kind |-> "str", elems |-> <<>>]

BBoxGood == BBoxList(<<BNum(7), BNum(46), BNum(8), BNum(47)>>)

BBoxValues ==
    {BBoxNone, BBoxString, BBoxList(<<>>), BBoxGood,
     BBoxList(<<BNum(7), BNum(46), BNum(8)>>),
     BBoxList(<<BNum(7), BNum(46), BNum(8), BNum(47), BNum(0)>>),
     BBoxList(<<BNum(7), BStr, BNum(8), BNum(47)>>),
     BBoxList(<<BNum(7), BNum(46), BNull, BNum(47)>>),
     BBoxList(<<BNumStr(7), BNumStr(46), BNumStr(8), BNumStr(47)>>)}

\* float(x): the value, or the exception it raises.
float_raises(x) ==
    CASE x.kind = "str" -> "ValueError"
      [] x.kind = "None" -> "TypeError"
      [] OTHER -> "none"

RECURSIVE first_float_error(_)
\* [float(x) for x in bbox]: the exception of the first element that raises.
first_float_error(elems) ==
    IF Len(elems) = 0 THEN "none"
    ELSE IF float_raises(Head(elems)) # "none" THEN float_raises(Head(elems))
    ELSE first_float_error(Tail(elems))

\* ----------------------------------------------------------- configuration

\* One entry of config['resources']: its providers' names and its
\* extents.spatial mapping.
Resource(names, bbox, crs) == [providers |-> names, bbox |-> bbox, crs |-> crs, none |-> FALSE]
\* self.collection = None
NoCollection == [providers |-> <<>>, bbox |-> BBoxNone, crs |-> CrsNone, none |-> TRUE]

ProviderName == "ArcGISMapServer"

ProviderLists == {<<"GeoJSON">>, <<"GeoJSON", ProviderName>>}

\* Spatial extents of the snapshot's entries: every bbox with one CRS, every
\* CRS with one bbox.
Spatials ==
    {<<b, CrsStr(Crs2056)>> : b \in BBoxValues} \cup {<<BBoxGood, c>> : c \in CrsValues}

Resources == {Resource(n, sp[1], sp[2]) : n \in ProviderLists, sp \in Spatials}

\* The snapshot: whether the file could be read and parsed, and its resources.
Configs ==
    {[readable |-> r, resources |-> rs] : r \in BOOLEAN, rs \in SeqsUpTo(Resources, MaxResources)}

RECURSIVE first_match(_, _)
\* The loops over resources and their providers: the first resource one of
\* whose providers has the name, or NoCollection.
first_match(resources, name) ==
    IF Len(resources) = 0 THEN NoCollection
    ELSE IF \E i \in 1..Len(Head(resources).providers) : Head(resources).providers[i] = name
         THEN Head(resources)
         ELSE first_match(Tail(resources), name)

\* The fields _load_collection_from_config leaves, library variant.
load_collection_from_config(config) ==
    LET res == IF config.readable THEN first_match(config.resources, ProviderName)
               ELSE NoCollection
        m == re_search_epsg(res.crs.s)
    IN  IF res.none
        THEN [collection |-> NoCollection, extent_bbox |-> BBoxNone,
              extent_crs |-> CrsNone, default_epsg |-> EpsgNone]
        ELSE [collection |-> res, extent_bbox |-> res.bbox, extent_crs |-> res.crs,
              default_epsg |-> IF CrsTruthy(res.crs) /\ Len(m) > 0
                               THEN EpsgStr(m)
                               ELSE EpsgStr(<<"4", "3", "2", "6">>)]

\* The fields _load_collection_from_config leaves, standalone variant.
load_collection_from_config_standalone(config) ==
    LET res == IF config.readable THEN first_match(config.resources, ProviderName)
               ELSE NoCollection
        m == re_search_epsg(res.crs.s)
    IN  IF res.none
        THEN [collection |-> NoCollection, extent_bbox |-> BBoxNone,
              extent_crs |-> CrsNone, default_epsg |-> EpsgNone]
        ELSE [collection |-> res, extent_bbox |-> res.bbox, extent_crs |-> res.crs,
              default_epsg |-> IF CrsTruthy(res.crs)
                               THEN IF Len(m) > 0 THEN EpsgInt(int_of_digits(m))
                                    ELSE EpsgNone
                               ELSE EpsgInt(4326)]

\* ---------------------------------------------------------------- geometry

\* A coordinate pair [x, y].
Pt(x, y) == <<x, y>>

\* A GeoJSON geometry: its type and its coordinates, as a list of polygons,
\* each a list of rings, each a list of points (a Point is the one point of
\* the one ring of the one polygon). NoGeom is None, or the key missing.
NoGeom == [type |-> "None", polys |-> <<>>]
\* Python truth value of a feature's 'geometry': a geometry mapping is true.
HasGeom(g) == g.type # "None"
GeoPoint(p) == [type |-> "Point", polys |-> << << <<p>> >> >>]
GeoPolygon(rings) == [type |-> "Polygon", polys |-> <<rings>>]
GeoMultiPolygon(polys) == [type |-> "MultiPolygon", polys |-> polys]

\* The 'geometry' value of a raw item: the key missing, ESRI {x, y}, ESRI
\* {rings}, a GeoJSON-shaped {type, coordinates}, or a mapping with none of
\* these keys.
RawMissing == [shape |-> "missing", pt |-> Pt(0, 0), rings |-> <<>>, geo |-> NoGeom]
RawPoint(p) == [shape |-> "point", pt |-> p, rings |-> <<>>, geo |-> NoGeom]
RawRings(rings) == [shape |-> "rings", pt |-> Pt(0, 0), rings |-> rings, geo |-> NoGeom]
RawGeoJSON(g) == [shape |-> "geojson", pt |-> Pt(0, 0), rings |-> <<>>, geo |-> g]
RawOpaque == [shape |-> "opaque", pt |-> Pt(0, 0), rings |-> <<>>, geo |-> NoGeom]

\* The caller's transform_fn: None, or a function on geometries. The one
\* function modelled moves every point 10 to the east and keeps the type.
Transforms == {"none", "shift"}

ShiftRing(ring) == [i \in 1..Len(ring) |-> Pt(ring[i][1] + 10, ring[i][2])]
ShiftPoly(poly) == [i \in 1..Len(poly) |-> ShiftRing(poly[i])]
\* transform_fn(g)
transform_fn(tf, g) ==
    IF tf = "shift" THEN [type |-> g.type, polys |-> [i \in 1..Len(g.polys) |-> ShiftPoly(g.polys[i])]]
    ELSE g

\* ------------------------------------------- plane geometry on integer points

Cross(o, a, b) == (a[1] - o[1]) * (b[2] - o[2]) - (a[2] - o[2]) * (b[1] - o[1])
Dot(o, a, b) == (a[1] - o[1]) * (b[1] - o[1]) + (a[2] - o[2]) * (b[2] - o[2])
Min2(a, b) == IF a < b THEN a ELSE b
Max2(a, b) == IF a > b THEN a ELSE b
Sign(n) == IF n > 0 THEN 1 ELSE IF n < 0 THEN -1 ELSE 0

\* p lies on the closed segment a-b.
OnSegment(p, a, b) ==
    /\ Cross(a, b, p) = 0
    /\ Min2(a[1], b[1]) <= p[1] /\ p[1] <= Max2(a[1], b[1])
    /\ Min2(a[2], b[2]) <= p[2] /\ p[2] <= Max2(a[2], b[2])

\* The closed segments a-b and c-d share a point.
SegmentsMeet(a, b, c, d) ==
    \/ /\ Sign(Cross(a, b, c)) * Sign(Cross(a, b, d)) < 0
       /\ Sign(Cross(c, d, a)) * Sign(Cross(c, d, b)) < 0
    \/ OnSegment(c, a, b) \/ OnSegment(d, a, b)
    \/ OnSegment(a, c, d) \/ OnSegment(b, c, d)

\* ------------------------------------------------ shapely (standalone variant)

\* The coordinates of the LinearRing Polygon(r) builds: r, closed with its first
\* point when its ends differ.
ClosedCoords(r) ==
    IF Len(r) = 0 \/ r[1] = r[Len(r)] THEN r ELSE Append(r, r[1])

\* Polygon(r) raises ValueError: a non-empty ring of fewer than 4 coordinates
\* once closed.
polygon_raises(r) == Len(r) > 0 /\ Len(ClosedCoords(r)) < 4

RECURSIVE DropRepeated(_)
\* The coordinates without the consecutive repeats.
DropRepeated(r) ==
    IF Len(r) <= 1 THEN r
    ELSE IF r[1] = r[2] THEN DropRepeated(Tail(r))
    ELSE <<r[1]>> \o DropRepeated(Tail(r))

\* Polygon(r).is_empty
is_empty(r) == Len(r) = 0

\* Polygon(r).is_valid, for a shell without holes: at least three distinct
\* vertices, and a boundary that neither crosses nor touches itself.
is_valid(r) ==
    LET c == DropRepeated(ClosedCoords(r))
        n == Len(c) - 1    \* edges: c[i] - c[i+1]
    IN  \/ Len(r) = 0
        \/ /\ n >= 3
           /\ \A i \in 1..n : \A j \in (i + 1)..n :
                IF j = i + 1
                THEN ~(Cross(c[i], c[j], c[j + 1]) = 0 /\ Dot(c[j], c[i], c[j + 1]) > 0)
                ELSE IF i = 1 /\ j = n
                THEN ~(Cross(c[j], c[1], c[2]) = 0 /\ Dot(c[1], c[j], c[2]) > 0)
                ELSE ~SegmentsMeet(c[i], c[i + 1], c[j], c[j + 1])

RECURSIVE SumTo(_, _, _)
SumTo(f, lo, hi) == IF lo > hi THEN 0 ELSE f[lo] + SumTo(f, lo + 1, hi)

\* Twice shapely's signed_area(ring): sum of x[i] * (y[i+1] - y[i-1]) over the
\* closed coordinates, the second appended after the last.
signed_area2(c) ==
    LET n == Len(c)
        ext == Append(c, c[2])
    IN  SumTo([i \in 2..n |-> ext[i][1] * (ext[i + 1][2] - ext[i - 1][2])], 2, n)

\* The ring kept as the server wound it.
orient_as_given(c) == c

\* orient(polygon, sign=1.0) on the exterior ring: kept when its signed area
\* has the sign, reversed otherwise.
orient(c) == IF signed_area2(c) >= 0 THEN c ELSE Reverse(c)

\* The list comprehension of _esri_rings_to_geojson: the oriented shells of
\* the valid, non-empty rings, in order.
RECURSIVE oriented_valid(_)
oriented_valid(rings) ==
    IF Len(rings) = 0 THEN <<>>
    ELSE LET r == Head(rings)
         IN  (IF is_valid(r) /\ ~is_empty(r) THEN <<orient(ClosedCoords(r))>> ELSE <<>>)
             \o oriented_valid(Tail(rings))

\* _esri_rings_to_geojson(rings): [raised, geometry]. Polygon(r) raises on a
\* ring of one or two points, and the exception leaves the function.
esri_rings_to_geojson(rings) ==
    IF Len(rings) = 0 THEN [raised |-> FALSE, geometry |-> NoGeom]
    ELSE IF \E i \in 1..Len(rings) : polygon_raises(rings[i])
    THEN [raised |-> TRUE, geometry |-> NoGeom]
    ELSE LET polys == oriented_valid(rings)
         IN  IF Len(polys) = 0 THEN [raised |-> FALSE, geometry |-> NoGeom]
             ELSE IF Len(polys) = 1
             THEN [raised |-> FALSE, geometry |-> GeoPolygon(<<polys[1]>>)]
             ELSE [raised |-> FALSE,
                   geometry |-> GeoMultiPolygon([i \in 1..Len(polys) |-> <<orient(polys[i])>>])]

\* ------------------------------------- arcgis2geojson (library variant)

\* closeRing(ring), for a non-empty ring
closeRing(r) == IF r[1] = r[Len(r)] THEN r ELSE Append(r, r[1])

\* ringIsClockwise(ring): the sum of (x2 - x1) * (y2 + y1) over the edges is >= 0
ringIsClockwise(r) ==
    SumTo([i \in 1..(Len(r) - 1) |-> (r[i + 1][1] - r[i][1]) * (r[i + 1][2] + r[i][2])],
          1, Len(r) - 1) >= 0

\* vertexIntersectsVertex(a1, a2, b1, b2): ua = uaT / uB and ub = ubT / uB both
\* lie in [0, 1]; parallel segments (uB = 0) never intersect.
vertexIntersectsVertex(a1, a2, b1, b2) ==
    LET uaT == (b2[1] - b1[1]) * (a1[2] - b1[2]) - (b2[2] - b1[2]) * (a1[1] - b1[1])
        ubT == (a2[1] - a1[1]) * (a1[2] - b1[2]) - (a2[2] - a1[2]) * (a1[1] - b1[1])
        uB == (b2[2] - b1[2]) * (a2[1] - a1[1]) - (b2[1] - b1[1]) * (a2[2] - a1[2])
        In01(t) == IF uB > 0 THEN 0 <= t /\ t <= uB ELSE uB <= t /\ t <= 0
    IN  uB # 0 /\ In01(uaT) /\ In01(ubT)

arrayIntersectsArray(a, b) ==
    \E i \in 1..(Len(a) - 1) : \E j \in 1..(Len(b) - 1) :
        vertexIntersectsVertex(a[i], a[i + 1], b[j], b[j + 1])

\* coordinatesContainPoint(coordinates, point): the ray-casting parity, each
\* vertex i paired with its predecessor j (the last vertex for the first).
coordinatesContainPoint(c, p) ==
    LET l == Len(c)
        Prev(i) == IF i = 1 THEN l ELSE i - 1
        Crosses(i) ==
            LET ci == c[i]
                cj == c[Prev(i)]
                dy == cj[2] - ci[2]
                lhs == (p[1] - ci[1]) * dy
                rhs == (cj[1] - ci[1]) * (p[2] - ci[2])
            IN  /\ \/ ci[2] <= p[2] /\ p[2] < cj[2]
                   \/ cj[2] <= p[2] /\ p[2] < ci[2]
                /\ IF dy > 0 THEN lhs < rhs ELSE lhs > rhs
    IN  Cardinality({i \in 1..l : Crosses(i)}) % 2 = 1

coordinatesContainCoordinates(outer, inner) ==
    ~arrayIntersectsArray(outer, inner) /\ coordinatesContainPoint(outer, inner[1])

\* The first loop of convertRingsToGeoJSON: [outer, holes]. Rings shorter than
\* 4 points once closed are skipped; a clockwise ring is an outer ring, stored
\* reversed; any other is a hole, stored reversed.
classify_ring(ring, c) ==
    IF Len(ring) < 4 THEN c
    ELSE IF ringIsClockwise(ring) THEN [c EXCEPT !.outer = Append(@, <<Reverse(ring)>>)]
    ELSE [c EXCEPT !.holes = Append(@, Reverse(ring))]
RECURSIVE classify_rings(_, _, _)
RECURSIVE classify_rings_from(_, _)
classify_rings(rings, outer, holes) ==
    IF Len(rings) = 0 THEN [outer |-> outer, holes |-> holes]
    ELSE classify_rings_from(Tail(rings),
                             classify_ring(closeRing(Head(rings)), [outer |-> outer, holes |-> holes]))
classify_rings_from(rings, c) == classify_rings(rings, c.outer, c.holes)

\* The greatest index of a set of indexes, or 0.
LastOf(S) == IF S = {} THEN 0 ELSE CHOOSE x \in S : \A y \in S : y <= x

\* The second loop: holes popped from the end, each appended to the last outer
\* ring that contains it, else kept as uncontained.
place_hole(outer, hole, uncontained, x) ==
    IF x > 0 THEN [outer |-> [outer EXCEPT ![x] = Append(@, hole)], uncontained |-> uncontained]
    ELSE [outer |-> outer, uncontained |-> Append(uncontained, hole)]
RECURSIVE place_holes(_, _, _)
RECURSIVE place_holes_from(_, _)
place_holes(outer, holes, uncontained) ==
    IF Len(holes) = 0 THEN [outer |-> outer, uncontained |-> uncontained]
    ELSE place_holes_from(
             SubSeq(holes, 1, Len(holes) - 1),
             place_hole(outer, holes[Len(holes)], uncontained,
                        LastOf({k \in 1..Len(outer) :
                                  coordinatesContainCoordinates(outer[k][1], holes[Len(holes)])})))
place_holes_from(holes, h) == place_holes(h.outer, holes, h.uncontained)

\* The third loop: uncontained holes popped from the end, each appended to the
\* last outer ring it intersects, else made a polygon of its own, reversed.
place_one_uncontained(outer, hole, x) ==
    IF x > 0 THEN [outer EXCEPT ![x] = Append(@, hole)] ELSE Append(outer, <<Reverse(hole)>>)
RECURSIVE place_uncontained(_, _)
place_uncontained(outer, uncontained) ==
    IF Len(uncontained) = 0 THEN outer
    ELSE place_uncontained(
             place_one_uncontained(
                 outer, uncontained[Len(uncontained)],
                 LastOf({k \in 1..Len(outer) :
                           arrayIntersectsArray(outer[k][1], uncontained[Len(uncontained)])})),
             SubSeq(uncontained, 1, Len(uncontained) - 1))

\* convertRingsToGeoJSON(rings): a Polygon for exactly one outer ring, a
\* MultiPolygon otherwise (for none: with no coordinates).
polygons_to_geojson(outer) ==
    IF Len(outer) = 1 THEN GeoPolygon(outer[1]) ELSE GeoMultiPolygon(outer)
place_classified(c) == place_holes(c.outer, c.holes, <<>>)
place_rest(h) == place_uncontained(h.outer, h.uncontained)
convertRingsToGeoJSON(rings) ==
    polygons_to_geojson(place_rest(place_classified(classify_rings(rings, <<>>, <<>>))))

\* convert(item['geometry']), then "if not geojson['geometry']: None": a
\* mapping without x/y or rings converts to {}, which is None.
convert_geometry(raw) ==
    CASE raw.shape = "point" -> GeoPoint(raw.pt)
      [] raw.shape = "rings" -> convertRingsToGeoJSON(raw.rings)
      [] OTHER -> NoGeom

\* ------------------------------------------------------------------- items

\* An attributes/properties mapping: the key missing, None, or a mapping,
\* of which the value under id_field is kept (PyNone: no such key).
PropsMissing == [kind |-> "missing", id |-> PyNone]
PropsNone == [kind |-> "None", id |-> PyNone]
Props(id) == [kind |-> "dict", id |-> id]

\* The 'feature' envelope of an item response.
NoEnvelope == [present |-> FALSE, id |-> PyNone, geometry |-> RawMissing, properties |-> PropsMissing]
Envelope(id, geometry, properties) ==
    [present |-> TRUE, id |-> id, geometry |-> geometry, properties |-> properties]

\* A raw item of a response: item[id_field], item['featureId'],
\* item['attributes'], item['properties'], item['geometry'], item['feature'].
Item(id, attributes, geometry) ==
    [id |-> id, featureId |-> PyNone, attributes |-> attributes, properties |-> PropsMissing,
     geometry |-> geometry, feature |-> NoEnvelope]
Enveloped(env) ==
    [id |-> PyNone, featureId |-> PyNone, attributes |-> PropsMissing, properties |-> PropsMissing,
     geometry |-> RawMissing, feature |-> env]

\* A feature mapping: 'id', 'geometry', 'properties'.
Feature(id, geometry, properties) == [id |-> id, geometry |-> geometry, properties |-> properties]

\* convert(item, idAttribute=self.id_field), for an item without ESRI geometry
\* keys of its own: a Feature when the item has 'geometry' or 'attributes'
\* (properties None without 'attributes'), else {}. Its 'id' is not modelled:
\* _custom_convert overwrites it.
convert(item) ==
    IF item.geometry.shape # "missing" \/ item.attributes.kind = "dict"
    THEN Feature(PyNone, convert_geometry(item.geometry),
                 IF item.attributes.kind = "dict" THEN item.attributes ELSE PropsNone)
    ELSE Feature(PyNone, NoGeom, PropsMissing)

\* _apply_geometry_transform(feature, transform_fn): [feature, calls]
apply_geometry_transform(f, tf) ==
    IF HasGeom(f.geometry)
    THEN [feature |-> [f EXCEPT !.geometry = transform_fn(tf, f.geometry)], calls |-> <<f.geometry>>]
    ELSE [feature |-> f, calls |-> <<>>]

\* The 'id' _custom_convert gives: item.get(id_field) or attrs.get(id_field)
\* or str(uuid.uuid4())
custom_convert_id(item, attrs) == PyOr(item.id, PyOr(attrs.id, PyUuid))

\* _custom_convert(item, transform_fn): [raised, feature, calls]. attrs is None
\* when convert left properties None, and attrs.get then raises AttributeError.
custom_convert_of(item, f, tf) ==
    IF ~Truthy(item.id) /\ f.properties.kind = "None"
    THEN [raised |-> TRUE, feature |-> f, calls |-> <<>>]
    ELSE IF tf # "none" /\ HasGeom(f.geometry)
    THEN [raised |-> FALSE]
         @@ apply_geometry_transform([f EXCEPT !.id = custom_convert_id(item, f.properties)], tf)
    ELSE [raised |-> FALSE, feature |-> [f EXCEPT !.id = custom_convert_id(item, f.properties)],
          calls |-> <<>>]
custom_convert(item, tf) == custom_convert_of(item, convert(item), tf)

\* ------------------------------------------------------- what a call leaves

\* The exception's message: its text, and the item identifier it names (0: none).
Msg(text) == [text |-> text, item |-> 0]
MsgItem(text, item_id) == [text |-> text, item |-> item_id]

\* The HTTP GET a call issued.
NoRequest == [sent |-> FALSE, path |-> "none", sr |-> <<>>, offset |-> 0, limit |-> 0, item |-> 0]
QueryRequest(path, sr, offset, limit) ==
    [sent |-> TRUE, path |-> path, sr |-> sr, offset |-> offset, limit |-> limit, item |-> 0]
ItemRequest(sr, item_id) ==
    [sent |-> TRUE, path |-> "item", sr |-> sr, offset |-> 0, limit |-> 0, item |-> item_id]

Raised(class, msg, req) ==
    [status |-> class, message |-> msg, request |-> req, features |-> <<>>, calls |-> <<>>]
Returned(req, fs, calls) ==
    [status |-> "ok", message |-> Msg("none"), request |-> req, features |-> fs, calls |-> calls]

\* limit=10, the default of query
DefaultLimit == 10

\* The guard left out: the call goes on without a collection.
no_collection_unchecked == FALSE

\* "if not self.collection"
no_collection == collection.none

\* The bbox test of query: not a list of length 4.
bad_bbox(bbox) == ~(bbox.kind = "list" /\ Len(bbox.elems) = 4)

\* "offset or startindex"
offset_param(offset, startindex) == PyOr(offset, PyInt(startindex)).v

\* The try block of query, the request req built: requests.get and
\* raise_for_status (net: they succeed), then the conversion res of the
\* results; every exception becomes ProviderQueryError.
query_response(req, net, res) ==
    IF ~net THEN Raised("ProviderQueryError", Msg("connection"), req)
    ELSE IF res.raised
    THEN [Raised("ProviderQueryError", Msg("query_error"), req) EXCEPT !.calls = res.calls]
    ELSE Returned(req, res.features, res.calls)

\* ------------------------------------------------------- query (library)

\* The list comprehension of query: per item, _custom_convert for the filter
\* and, when its geometry is not None, _custom_convert again for the value.
convert_result(test, value, rest) ==
    IF test.raised THEN [raised |-> TRUE, features |-> <<>>, calls |-> test.calls]
    ELSE IF ~HasGeom(test.feature.geometry)
    THEN [rest EXCEPT !.calls = test.calls \o @]
    ELSE IF rest.raised
    THEN [rest EXCEPT !.calls = test.calls \o value.calls \o @]
    ELSE [raised |-> FALSE, features |-> <<value.feature>> \o rest.features,
          calls |-> test.calls \o value.calls \o rest.calls]
RECURSIVE convert_results(_, _)
convert_results(items, tf) ==
    IF Len(items) = 0 THEN [raised |-> FALSE, features |-> <<>>, calls |-> <<>>]
    ELSE convert_result(custom_convert(Head(items), tf), custom_convert(Head(items), tf),
                        convert_results(Tail(items), tf))

\* query(startindex, limit, offset, transform_fn), library variant; net is
\* whether requests.get and raise_for_status succeed.
query(startindex, offset, tf, net) ==
    IF no_collection
    THEN Raised("ProviderQueryError", Msg("no_collection"), NoRequest)
    ELSE IF bad_bbox(extent_bbox)
    THEN Raised("ProviderQueryError", Msg("bad_bbox"), NoRequest)
    ELSE IF first_float_error(extent_bbox.elems) # "none"
    THEN Raised(first_float_error(extent_bbox.elems), Msg("float"), NoRequest)
    ELSE query_response(
             QueryRequest("identify",
                          IF EpsgTruthy(default_epsg) THEN EpsgText(default_epsg)
                          ELSE <<"2", "0", "5", "6">>,
                          offset_param(offset, startindex), DefaultLimit),
             net, convert_results(server, tf))

\* ---------------------------------------------------- query (standalone)

\* The feature id of _transform_geojson: item.get(id_field) or
\* attrs.get(id_field) or item.get('featureId')
transform_geojson_id(item) == PyOr(item.id, PyOr(item.attributes.id, item.featureId))

\* _transform_geojson(data): [raised, features]
RECURSIVE transform_geojson(_)
transform_geojson(items) ==
    IF Len(items) = 0 THEN [raised |-> FALSE, features |-> <<>>]
    ELSE LET item == Head(items)
             geom == item.geometry
             norm == IF geom.shape = "rings" THEN esri_rings_to_geojson(geom.rings)
                     ELSE IF geom.shape = "point"
                     THEN [raised |-> FALSE, geometry |-> GeoPoint(geom.pt)]
                     ELSE [raised |-> FALSE, geometry |-> NoGeom]
             attrs == IF item.attributes.kind = "dict" THEN item.attributes ELSE Props(PyNone)
             rest == transform_geojson(Tail(items))
         IN  IF geom.shape = "missing" THEN rest
             ELSE IF norm.raised THEN [raised |-> TRUE, features |-> <<>>]
             ELSE IF ~HasGeom(norm.geometry) \/ rest.raised THEN rest
             ELSE [raised |-> FALSE,
                   features |-> <<Feature(transform_geojson_id(item), norm.geometry, attrs)>>
                                \o rest.features]

\* query(startindex, limit, offset), standalone variant
query_standalone(startindex, offset, net) ==
    IF no_collection
    THEN Raised("ProviderQueryError", Msg("no_collection"), NoRequest)
    ELSE IF bad_bbox(extent_bbox)
    THEN Raised("ProviderQueryError", Msg("bad_bbox"), NoRequest)
    ELSE IF first_float_error(extent_bbox.elems) # "none"
    THEN Raised(first_float_error(extent_bbox.elems), Msg("float"), NoRequest)
    ELSE query_response(
             QueryRequest("base",
                          IF EpsgTruthy(default_epsg) THEN EpsgText(default_epsg)
                          ELSE str_of_int(4326),
                          offset_param(offset, startindex), DefaultLimit),
             net, [calls |-> <<>>] @@ transform_geojson(server))

\* ------------------------------------------------------------- get_item

\* The identifier get_item gives: item.get(id_field) or
\* item.get('feature', {}).get(id_field) or
\* feature.get('properties', {}).get(id_field), else str(item_id)
get_item_id(item, feature, item_id) ==
    LET feature_id == PyOr(item.id, PyOr(item.feature.id, feature.properties.id))
    IN  IF feature_id.kind # "None" THEN feature_id ELSE PyStrOf(item_id)

\* A mapping with 'type' and 'coordinates', both true.
geojson_shaped(raw) == raw.shape = "geojson" /\ raw.geo.type # "None" /\ Len(raw.geo.polys) > 0

\* The geometry handling without its final raise: the feature goes on as it is.
get_item_geometry_lenient(item, f, tf) ==
    LET esri_geom == item.feature.geometry
        geometry == IF item.geometry.shape # "missing" THEN item.geometry ELSE esri_geom
    IN  IF ~HasGeom(f.geometry) /\ esri_geom.shape = "point"
        THEN [raised |-> FALSE, feature |-> [f EXCEPT !.geometry = GeoPoint(esri_geom.pt)],
              calls |-> <<>>]
        ELSE IF ~HasGeom(f.geometry) /\ geojson_shaped(geometry)
        THEN [raised |-> FALSE] @@ apply_geometry_transform([f EXCEPT !.geometry = geometry.geo], tf)
        ELSE [raised |-> FALSE, feature |-> f, calls |-> <<>>]

\* The geometry handling of get_item: [raised, feature, calls]. Without a
\* converted geometry: a Point from the envelope's x/y; else the item's or the
\* envelope's GeoJSON-shaped geometry, transformed; else ProviderQueryError.
get_item_geometry(item, f, tf) ==
    LET esri_geom == item.feature.geometry
        geometry == IF item.geometry.shape # "missing" THEN item.geometry ELSE esri_geom
    IN  IF HasGeom(f.geometry) THEN [raised |-> FALSE, feature |-> f, calls |-> <<>>]
        ELSE IF esri_geom.shape = "point"
        THEN [raised |-> FALSE, feature |-> [f EXCEPT !.geometry = GeoPoint(esri_geom.pt)],
              calls |-> <<>>]
        ELSE IF geojson_shaped(geometry)
        THEN IF tf # "none"
             THEN [raised |-> FALSE] @@ apply_geometry_transform([f EXCEPT !.geometry = geometry.geo], tf)
             ELSE [raised |-> FALSE, feature |-> [f EXCEPT !.geometry = geometry.geo], calls |-> <<>>]
        ELSE [raised |-> TRUE, feature |-> f, calls |-> <<>>]

\* The collapse left out.
collapse_skipped(g) == g

\* A MultiPolygon of exactly one polygon becomes that Polygon.
collapse_multipolygon(g) ==
    IF g.type = "MultiPolygon" /\ Len(g.polys) = 1 THEN GeoPolygon(g.polys[1]) ELSE g

\* The properties get_item gives: the envelope's, else the item's, else {}.
get_item_properties(item) ==
    IF item.feature.properties.kind = "dict" THEN item.feature.properties
    ELSE IF item.properties.kind = "dict" THEN item.properties
    ELSE Props(PyNone)

\* get_item(item_id, transform_fn); a request for an item the layer does not
\* hold is answered 404, which raise_for_status raises.
get_item_sr ==
    IF CrsTruthy(extent_crs) THEN extent_crs.s
    ELSE IF EpsgTruthy(default_epsg) THEN EpsgText(default_epsg)
    ELSE <<"4", "3", "2", "6">>

\* The end of the try block: the geometry g settled, after the calls of
\* _custom_convert.
get_item_finish(item, item_id, req, calls, g) ==
    IF g.raised
    THEN [Raised("ProviderQueryError", MsgItem("item_error", item_id), req) EXCEPT !.calls = calls]
    ELSE Returned(req,
                  <<[g.feature EXCEPT !.geometry = collapse_multipolygon(@),
                                      !.properties = get_item_properties(item)]>>,
                  calls \o g.calls)

\* The try block from _custom_convert's result c on.
get_item_assemble(item, item_id, req, tf, c) ==
    IF c.raised
    THEN Raised("ProviderQueryError", MsgItem("item_error", item_id), req)
    ELSE get_item_finish(
             item, item_id, req, c.calls,
             get_item_geometry(item, [c.feature EXCEPT !.id = get_item_id(item, c.feature, item_id)],
                               tf))

get_item(item_id, tf, net) ==
    IF no_collection
    THEN Raised("ProviderQueryError", Msg("no_collection"), NoRequest)
    ELSE IF ~net \/ item_id > Len(server)
    THEN Raised("ProviderQueryError", Msg("connection"), ItemRequest(get_item_sr, item_id))
    ELSE get_item_assemble(server[item_id], item_id, ItemRequest(get_item_sr, item_id), tf,
                           custom_convert(server[item_id], tf))

\* ----------------------------------------------------------- the inputs

Variants == {"library", "standalone"}

SquareCW == <<Pt(0, 0), Pt(0, 1), Pt(1, 1), Pt(1, 0), Pt(0, 0)>>
SquareFarCW == <<Pt(5, 5), Pt(5, 6), Pt(6, 6), Pt(6, 5), Pt(5, 5)>>
SquareCCW == Reverse(SquareCW)
ShortRing == <<Pt(0, 0), Pt(1, 1)>>

ItemPoint == Item(PyNone, Props(PyInt(7)), RawPoint(Pt(1, 2)))
ItemPolygon == Item(PyNone, Props(PyInt(8)), RawRings(<<SquareCW>>))
ItemTwoRings == Item(PyNone, Props(PyInt(9)), RawRings(<<SquareCW, SquareFarCW>>))
ItemShortRing == Item(PyNone, Props(PyInt(3)), RawRings(<<ShortRing>>))
ItemNoGeometry == Item(PyNone, Props(PyInt(4)), RawMissing)
ItemOpaque == Item(PyNone, Props(PyInt(6)), RawOpaque)
ItemTopZero == Item(PyInt(0), Props(PyInt(7)), RawPoint(Pt(1, 2)))
ItemTopFive == Item(PyInt(5), Props(PyInt(7)), RawPoint(Pt(1, 2)))
ItemNoId == Item(PyNone, Props(PyNone), RawPoint(Pt(1, 2)))
ItemNoAttributes == Item(PyNone, PropsMissing, RawPoint(Pt(1, 2)))
ItemEnvelopePoint == Enveloped(Envelope(PyInt(4), RawPoint(Pt(3, 4)), Props(PyInt(4))))
ItemEnvelopeMulti1 ==
    Enveloped(Envelope(PyNone, RawGeoJSON(GeoMultiPolygon(<< <<SquareCCW>> >>)), PropsMissing))
ItemEnvelopeMulti2 ==
    Enveloped(Envelope(PyNone,
                       RawGeoJSON(GeoMultiPolygon(<< <<SquareCCW>>, <<Reverse(SquareFarCW)>> >>)),
                       PropsMissing))
ItemEnvelopePolygon ==
    Enveloped(Envelope(PyInt(2), RawGeoJSON(GeoPolygon(<<SquareCCW>>)), Props(PyInt(2))))
ItemEnvelopeEmpty == Enveloped(Envelope(PyNone, RawMissing, PropsMissing))
ItemFlatMulti1 ==
    [Item(PyInt(6), PropsMissing, RawGeoJSON(GeoMultiPolygon(<< <<SquareCCW>> >>)))
        EXCEPT !.properties = Props(PyInt(6))]

\* The raw items a layer may hold.
ItemCatalog ==
    {ItemPoint, ItemPolygon, ItemTwoRings, ItemShortRing, ItemNoGeometry, ItemOpaque,
     ItemTopZero, ItemTopFive, ItemNoId, ItemNoAttributes, ItemEnvelopePoint,
     ItemEnvelopeMulti1, ItemEnvelopeMulti2, ItemEnvelopePolygon, ItemEnvelopeEmpty,
     ItemFlatMulti1}

StartIndexes == {0, 5}
Offsets == {PyNone, PyInt(0), PyInt(3)}

\* The rings handed to ring normalisation on its own: every single ring over
\* the grid, and every list of catalogue rings.
Grid == {Pt(x, y) : x \in 0..GridMax, y \in 0..GridMax}
RingCatalog == {SquareCW, SquareCCW, SquareFarCW, Reverse(SquareFarCW), <<>>,
                <<Pt(0, 0), Pt(1, 1), Pt(0, 1), Pt(1, 0)>>,
                <<Pt(0, 0), Pt(1, 0), Pt(2, 0)>>}
RingInputs == {<<r>> : r \in SeqsUpTo(Grid, MaxRingLen)} \cup SeqsUpTo(RingCatalog, MaxRings)

NotRun == [ran |-> FALSE, raised |-> FALSE, geometry |-> NoGeom]

\* ------------------------------------------------------------ the machine

NoArgs == [startindex |-> 0, offset |-> PyNone, item_id |-> 0, transform_fn |-> "none"]

\* __init__(provider_def): the fields start None and
\* _load_collection_from_config fills them.
Construct(v, config) ==
    LET loaded == IF v = "library" THEN load_collection_from_config(config)
                  ELSE load_collection_from_config_standalone(config)
    IN  /\ variant = v
        /\ collection = loaded.collection
        /\ extent_bbox = loaded.extent_bbox
        /\ extent_crs = loaded.extent_crs
        /\ default_epsg = loaded.default_epsg
        /\ op = "none"
        /\ args = NoArgs
        /\ status = "none"
        /\ message = Msg("none")
        /\ request = NoRequest
        /\ features = <<>>
        /\ tlog = <<>>

Leaves(outcome) ==
    /\ status' = outcome.status
    /\ message' = outcome.message
    /\ request' = outcome.request
    /\ features' = outcome.features
    /\ tlog' = outcome.calls

\* A call of query; the standalone class takes transform_fn into **kwargs
\* and ignores it.
Query(startindex, offset, tf, net) ==
    /\ op' = "query"
    /\ args' = [startindex |-> startindex, offset |-> offset, item_id |-> 0, transform_fn |-> tf]
    /\ Leaves(IF variant = "library" THEN query(startindex, offset, tf, net)
              ELSE query_standalone(startindex, offset, net))
    /\ UNCHANGED <<variant, collection, extent_bbox, extent_crs, default_epsg, server,
                   rings_in, rings_out>>

\* A call of get_item (or get, which calls it); only the library class has it.
GetItem(item_id, tf, net) ==
    /\ variant = "library"
    /\ op' = "get_item"
    /\ args' = [startindex |-> 0, offset |-> PyNone, item_id |-> item_id, transform_fn |-> tf]
    /\ Leaves(get_item(item_id, tf, net))
    /\ UNCHANGED <<variant, collection, extent_bbox, extent_crs, default_epsg, server,
                   rings_in, rings_out>>

QueryPaged ==
    \E startindex \in StartIndexes, offset \in Offsets, tf \in Transforms, net \in BOOLEAN :
        Query(startindex, offset, tf, net)

QueryDefault == \E tf \in Transforms, net \in BOOLEAN : Query(0, PyNone, tf, net)

GetItemAny ==
    \E item_id \in 1..MaxItems, tf \in Transforms, net \in BOOLEAN : GetItem(item_id, tf, net)

\* Instances of every configuration, over a layer of point items.
Init ==
    /\ \E v \in Variants, config \in Configs : Construct(v, config)
    /\ server \in SeqsUpTo({ItemPoint}, MaxItems)
    /\ rings_in = <<>>
    /\ rings_out = NotRun

Next == QueryPaged \/ GetItemAny

Spec == Init /\ [][Next]_vars

\* Instances of one good configuration, over every layer of catalogue items.
GoodConfig ==
    [readable |-> TRUE, resources |-> <<Resource(<<ProviderName>>, BBoxGood, CrsStr(Crs2056))>>]

InitFeatures ==
    /\ \E v \in Variants : Construct(v, GoodConfig)
    /\ server \in SeqsUpTo(ItemCatalog, MaxItems)
    /\ rings_in = <<>>
    /\ rings_out = NotRun

NextFeatures == QueryDefault \/ GetItemAny

SpecFeatures == InitFeatures /\ [][NextFeatures]_vars

\* Ring normalisation on its own, in a standalone instance.
InitRings ==
    /\ Construct("standalone", GoodConfig)
    /\ server = <<>>
    /\ rings_in \in RingInputs
    /\ rings_out = NotRun

Normalize ==
    /\ ~rings_out.ran
    /\ rings_out' = [ran |-> TRUE] @@ esri_rings_to_geojson(rings_in)
    /\ UNCHANGED <<variant, collection, extent_bbox, extent_crs, default_epsg, server,
                   op, args, status, message, request, features, tlog, rings_in>>

NextRings == Normalize

SpecRings == InitRings /\ [][NextRings]_vars

\* ------------------------------------------------------------- properties

\* The last call got an answer from the server: it sent its request and did
\* not fail in the transport.
Answered == request.sent /\ message.text # "connection"

\* C1: an instance whose construction found no collection fails every query
\* and every get_item with the "no collection" ProviderQueryError, without
\* sending a request and without returning anything.
C1_NoCollectionFailsFast ==
    (collection.none /\ op # "none") =>
        /\ status = "ProviderQueryError"
        /\ message.text = "no_collection"
        /\ ~request.sent
        /\ features = <<>>

\* C1, reached: get_item was called on an instance without a collection.
C1_GetItemWithoutCollection == collection.none /\ op = "get_item"

\* A bbox of exactly 4 numbers.
FourNumbers(bbox) ==
    /\ bbox.kind = "list"
    /\ Len(bbox.elems) = 4
    /\ \A i \in 1..4 : bbox.elems[i].kind = "num"

\* C2: a query on a bbox that is not exactly 4 numeric values fails with
\* ProviderQueryError and sends no request.
C2_BadBboxIsQueryError ==
    (op = "query" /\ ~collection.none /\ ~FourNumbers(extent_bbox)) =>
        (status = "ProviderQueryError" /\ ~request.sent)

\* Some geometry can be produced for the item: the converter reads its ESRI
\* geometry, its envelope's geometry has x and y, or its own or its envelope's
\* geometry is GeoJSON-shaped.
Resolvable(item) ==
    \/ item.geometry.shape \in {"point", "rings"}
    \/ item.feature.geometry.shape = "point"
    \/ geojson_shaped(item.geometry)
    \/ geojson_shaped(item.feature.geometry)

\* C3: get_item never returns a feature without geometry, and when the
\* answered item yields no geometry it raises the ProviderQueryError that
\* names the requested identifier.
C3_GetItemNeedsGeometry ==
    op = "get_item" =>
        /\ status = "ok" => (Len(features) = 1 /\ HasGeom(features[1].geometry))
        /\ (Answered /\ ~Resolvable(server[args.item_id])) =>
               /\ status = "ProviderQueryError"
               /\ message = MsgItem("item_error", args.item_id)

\* C3, reached: get_item failed on an answered item without any geometry.
C3_FailedWithoutGeometry ==
    /\ op = "get_item"
    /\ Answered
    /\ ~Resolvable(server[args.item_id])
    /\ status = "ProviderQueryError"

\* C4: an answered query over items that all carry attributes never fails,
\* whatever their geometries, and every feature it returns has a geometry.
C4_QueryDropsBadItems ==
    (op = "query" /\ Answered
        /\ \A i \in 1..Len(server) : server[i].attributes.kind = "dict") =>
        /\ status = "ok"
        /\ \A i \in 1..Len(features) : HasGeom(features[i].geometry)

\* The identifier the precedence gives an item: the top-level value when
\* present, else the mapping's value when present, else a generated token.
PrecedenceId(item) ==
    IF item.id.kind # "None" THEN item.id
    ELSE IF item.attributes.id.kind # "None" THEN item.attributes.id
    ELSE PyUuid

\* C5: every feature a query returns has the identifier the precedence gives
\* the item it was assembled from.
C5_IdPrecedence ==
    (op = "query" /\ status = "ok") =>
        \A i \in 1..Len(features) :
            \E j \in 1..Len(server) :
                /\ features[i].id = PrecedenceId(server[j])
                /\ features[i].properties.id = server[j].attributes.id

\* C6: with a transform function supplied, it was called exactly once per
\* returned feature, and the feature's geometry is what that call returned (a
\* single-polygon MultiPolygon collapsed).
C6_TransformOnce ==
    (op # "none" /\ status = "ok" /\ args.transform_fn # "none" /\ variant = "library") =>
        /\ Len(tlog) = Len(features)
        /\ \A i \in 1..Len(features) :
              features[i].geometry.type =
                  collapse_multipolygon(transform_fn(args.transform_fn, tlog[i])).type
              /\ features[i].geometry.polys =
                  collapse_multipolygon(transform_fn(args.transform_fn, tlog[i])).polys

\* C7: the offset a query sends is the offset supplied, startindex only when
\* none was.
C7_OffsetWins ==
    (op = "query" /\ request.sent) =>
        request.offset = (IF args.offset.kind # "None" THEN args.offset.v ELSE args.startindex)

\* C8: no returned feature carries a MultiPolygon of exactly one polygon.
C8_NoSingleMultiPolygon ==
    \A i \in 1..Len(features) :
        ~(features[i].geometry.type = "MultiPolygon" /\ Len(features[i].geometry.polys) = 1)

\* C8, reached: get_item returned as a Polygon an item the server gave as a
\* GeoJSON MultiPolygon of one polygon.
C8_CollapsedOne ==
    /\ op = "get_item"
    /\ status = "ok"
    /\ server[args.item_id].feature.geometry.geo.type = "MultiPolygon"
    /\ Len(server[args.item_id].feature.geometry.geo.polys) = 1
    /\ features[1].geometry.type = "Polygon"

\* The code the CRS identifier stands for: its trailing run of digits, the
\* last 5 of them at most, when the run has 4 or more; 4326 otherwise.
SuffixCode(crs) ==
    LET n == IF crs.kind = "str" THEN TrailingDigitRun(crs.s) ELSE 0
    IN  IF n < 4 THEN <<"4", "3", "2", "6">>
        ELSE SubSeq(crs.s, Len(crs.s) + 1 - Min2(n, 5), Len(crs.s))

\* C9: the code construction resolves is the suffix code of the CRS
\* identifier, and it is the sr every query sends.
C9_EpsgIsSuffix ==
    ~collection.none =>
        /\ default_epsg.kind # "None"
        /\ int_of_digits(EpsgText(default_epsg)) = int_of_digits(SuffixCode(extent_crs))
        /\ (op = "query" /\ request.sent) =>
               int_of_digits(request.sr) = int_of_digits(SuffixCode(extent_crs))

\* A closed ring winds counter-clockwise: at its lowest of its leftmost
\* vertices the boundary turns left.
CounterClockwise(ring) ==
    LET c == DropRepeated(ring)
        n == Len(c) - 1
        Before(p, q) == p[1] < q[1] \/ (p[1] = q[1] /\ p[2] <= q[2])
        k == CHOOSE i \in 1..n : \A j \in 1..n : Before(c[i], c[j])
        prev == IF k = 1 THEN c[n] ELSE c[k - 1]
    IN  Cross(prev, c[k], c[k + 1]) > 0

\* C10: every exterior ring ring normalisation returns winds
\* counter-clockwise, and is one of the given rings, closed, as given or
\* reversed.
C10_ExteriorsCounterClockwise ==
    (rings_out.ran /\ ~rings_out.raised /\ HasGeom(rings_out.geometry)) =>
        /\ rings_out.geometry.type \in {"Polygon", "MultiPolygon"}
        /\ \A i \in 1..Len(rings_out.geometry.polys) :
              LET shell == rings_out.geometry.polys[i][1]
              IN  /\ CounterClockwise(shell)
                  /\ \E j \in 1..Len(rings_in) :
                        \/ shell = ClosedCoords(rings_in[j])
                        \/ shell = Reverse(ClosedCoords(rings_in[j]))

\* C10, reached: a MultiPolygon came back for rings of which one was given
\* clockwise.
C10_ClockwiseGiven ==
    /\ rings_out.ran
    /\ rings_out.geometry.type = "MultiPolygon"
    /\ \E j \in 1..Len(rings_in) : rings_in[j] = SquareCW

====
